---- MODULE Spec2Model ----
(***************************************************************************)
(* SchemaHandler of serverless-openapi-documenter (src/schemaHandler.js):  *)
(* the schema resolution and registry-merge engine.                        *)
(*                                                                         *)
(* State: the shared openAPI document (components.schemas), the            *)
(* modelReferences cache, this.models, and the asynchronous calls of       *)
(* createSchema / addModelsToOpenAPI that are in flight.  A call suspends  *)
(* at its awaits: while $RefParser works (Resolve), and between the end of *)
(* __dereferenceAndConvert and the caller's continuation.  The code        *)
(* between two awaits is synchronous and is one action.                    *)
(***************************************************************************)
EXTENDS Integers, Sequences, FiniteSets, TLC

\* ------------------------------------------------------------------ bounds

\* Calls of createSchema / addModelsToOpenAPI started in one behaviour.
MaxCalls == 3

\* The most calls that concurrent callers make.
MaxConcurrentCalls == 2

\* The most model objects a collection of the configuration holds.
MaxModels == 2

\* ------------------------------------------------------------- data model

\* A key of components.schemas: a plain name (sfx = 0), or the name followed
\* by "-" and the sfx-th uuid minted: `${schemaName}-${uuid()}`.
Key(n) == [base |-> n, sfx |-> 0]

Suffixed(n, u) == [base |-> n, sfx |-> u]

\* `#/components/schemas/${name}`
Ref(k) == [ptr |-> "#/components/schemas/", key |-> k]

\* An object with no vendor-extension keys.
NoExt == [k \in {} |-> "none"]

\* A schema value: its content, whether it still holds an unresolved $ref,
\* and its vendor-extension ("x-...") keys.
SchemaValue(body, ref, x) == [v |-> body, ref |-> ref, x |-> x]

\* No schema payload: createSchema(name) called with schema === undefined.
Undefined == [t |-> "undefined"]

\* A schema document.  body: its content (for a document whose root is a $ref
\* to one of its own definitions, the properties of that definition); hasRef:
\* it holds an (external) $ref; rootRef: the number of passes of
\* $RefParser.dereference that leave its root as { $ref: "#" } (0: its root is
\* no such $ref); aux: the content of a nested named definition that the converter
\* hoists to a component of its own ("none": no such definition); x: the
\* document's own vendor extensions; conv: what the dialect converter makes
\* of the document (a collaborator the handler only calls).
Doc(body, hasRef, aux, conv) ==
  [t |-> "doc", body |-> body, hasRef |-> hasRef, rootRef |-> 0, aux |-> aux,
   x |-> NoExt, conv |-> conv]

\* The document still holds a $ref.
Unresolved(doc) == doc.hasRef \/ doc.rootRef > 0

\* The name the converter gives the hoisted nested definition.
AuxName == "Bar"

DocA == Doc("a", FALSE, "none", "object")

DocB == Doc("b", FALSE, "none", "object")

DocRefAux == Doc("a", TRUE, "b", "object")

DocX == [Doc("b", TRUE, "none", "object") EXCEPT !.x = ("x-tag" :> "conv")]

DocRootRef == [Doc("b", TRUE, "none", "object") EXCEPT !.rootRef = 1]

DocRootRefTwice == [Doc("a", FALSE, "none", "object") EXCEPT !.rootRef = 2]

DocArray == Doc("a", FALSE, "none", "array")

DocNull == Doc("a", FALSE, "none", "null")

DocMissing == Doc("a", FALSE, "none", "missing")

DocNumber == Doc("a", FALSE, "none", "number")

DocThrows == Doc("a", TRUE, "none", "throws")

\* The inputs of createSchema(name, schema) that are tried.
CreateInputs ==
  {<<"Foo", DocA>>, <<"Foo", DocB>>, <<"Foo", DocRefAux>>, <<"Foo", Undefined>>,
   <<"Bar", DocA>>, <<"Bar", Undefined>>, <<"Bar", DocRootRef>>,
   <<"Bar", DocRootRefTwice>>,
   <<"Foo", DocArray>>, <<"Foo", DocNull>>, <<"Foo", DocMissing>>,
   <<"Foo", DocNumber>>, <<"Foo", DocThrows>>}

\* A standardised model of this.models: name, schema, and its other keys.
Model(name, schema, extra) == [name |-> name, schema |-> schema, extra |-> extra]

\* The model object createSchema builds: { name, schema }.
PlainModel(name, schema) == Model(name, schema, NoExt)

\* The values of this.models that are tried.
ModelLists ==
  {<<>>,
   <<Model("Foo", DocRefAux, ("x-tag" :> "model") @@ ("description" :> "text")),
     Model("Bar", DocA, NoExt)>>,
   <<Model("Foo", DocA, NoExt), Model("Foo", DocX, ("x-tag" :> "model")),
     Model("Bar", DocArray, ("x-tag" :> "model"))>>}

\* Mutant: every key of the model is taken for an extension key.
StartsWithAnything(key) == key \in {"x-tag", "description"}

\* key.startsWith("x-"), on the keys a model carries.
StartsWithXDash(key) == key \in {"x-tag"}

\* ---------------------------------------------------------- normalisation

\* A collection of the configuration that may be absent: documentation.models,
\* documentation.modelsList (lists of model objects) and
\* provider.apiGateway.request.schemas (its <<key, model>> pairs in the order
\* of Object.keys).
Absent == [present |-> FALSE, items |-> <<>>]

Present(items) == [present |-> TRUE, items |-> items]

\* serverless.service: custom.documentation, which may be undefined, and the
\* API-gateway request schemas.
Service(hasDocumentation, models, modelsList, schemas) ==
  [documentation |-> [present |-> hasDocumentation, models |-> models,
                      modelsList |-> modelsList],
   schemas |-> schemas]

\* A model object as configured is a function of its keys.  With a schema:
RawFoo == ("name" :> "Foo") @@ ("schema" :> DocA)

\* with no schema, and two media types under content:
RawContent ==
  ("name" :> "Foo") @@ ("x-tag" :> "model")
    @@ ("content" :> <<<<"application/json", [schema |-> DocB]>>,
                       <<"application/xml", [schema |-> DocA]>>>>)

\* with a schema, and a content beside it:
RawBoth ==
  ("name" :> "Bar") @@ ("schema" :> DocB) @@ ("description" :> "text")
    @@ ("content" :> <<<<"text/plain", [schema |-> DocA]>>>>)

RawModels == {RawFoo, RawContent, RawBoth}

\* The lists of at most n of the model objects.
ListsUpTo(n) == UNION {[1..k -> RawModels] : k \in 0..n}

\* The API-gateway schemas that hold the models of a list, under keys in the
\* order of the list.
GatewayKey(i) == CASE i = 1 -> "k1" [] i = 2 -> "k2" [] OTHER -> "k3"

Keyed(list) == [i \in 1..Len(list) |-> <<GatewayKey(i), list[i]>>]

\* The configurations a handler is constructed on.
Configurations ==
  {Service(FALSE, Absent, Absent, g) :
     g \in {Absent} \cup {Present(Keyed(l)) : l \in ListsUpTo(MaxModels)}}
  \cup
  {Service(TRUE, m, ml, g) :
     m \in {Absent} \cup {Present(l) : l \in ListsUpTo(MaxModels)},
     ml \in {Absent} \cup {Present(l) : l \in ListsUpTo(MaxModels)},
     g \in {Absent} \cup {Present(Keyed(l)) : l \in ListsUpTo(MaxModels)}}

\* Mutant: the schema is taken from the last media type under content.
StandardModelLastMediaType(model) ==
  IF "schema" \in DOMAIN model
  THEN model
  ELSE LET final == model["content"][Len(model["content"])]
       IN  ("contentType" :> final[1]) @@ ("schema" :> final[2].schema) @@ model

\* standardModel(model): the model itself when its schema is truthy (a schema
\* is a document or a path, which are); else the model with contentType, the
\* first key of its content, and schema, the schema under that key, set on it.
StandardModel(model) ==
  IF "schema" \in DOMAIN model
  THEN model
  ELSE LET contentType == model["content"][1][1]
       IN  ("contentType" :> contentType)
             @@ ("schema" :> model["content"][1][2].schema) @@ model

\* list?.map(standardModel) || []
MapStandardModel(list) ==
  IF list.present
  THEN [i \in 1..Len(list.items) |-> StandardModel(list.items[i])]
  ELSE <<>>

\* Object.keys(this.apiGatewayModels).flatMap(key => standardModel(
\* this.apiGatewayModels[key])), this.apiGatewayModels being {} when the
\* configuration has no request schemas.
FlatMapGatewayModels(schemas) ==
  [i \in 1..Len(schemas.items) |-> StandardModel(schemas.items[i][2])]

\* A standardised model object as the rest of the handler reads it: its name,
\* its schema, and its other keys.
Descriptor(m) ==
  Model(m["name"], m["schema"], [k \in DOMAIN m \ {"name", "schema"} |-> m[k]])

\* __standardiseModels: the value it assigns to this.models.
StandardiseModels(service) ==
  LET standardisedModels ==
        IF service.documentation.present
        THEN MapStandardModel(service.documentation.models) ELSE <<>>
      standardisedModelsList ==
        IF service.documentation.present
        THEN MapStandardModel(service.documentation.modelsList) ELSE <<>>
      standardisedGatewayModels == FlatMapGatewayModels(service.schemas)
      all == standardisedModels \o standardisedModelsList \o standardisedGatewayModels
  IN  [i \in 1..Len(all) |-> Descriptor(all[i])]

\* The configurations whose models are the values of this.models tried.
ConfigurationsTried ==
  {Service(FALSE, Absent, Absent, Absent),
   Service(TRUE,
           Present(<<("name" :> "Foo") @@ ("schema" :> DocRefAux)
                       @@ ("x-tag" :> "model") @@ ("description" :> "text")>>),
           Absent,
           Present(<<<<"bar", ("name" :> "Bar") @@ ("schema" :> DocA)>>>>)),
   Service(TRUE,
           Present(<<("name" :> "Foo") @@ ("schema" :> DocA)>>),
           Present(<<("name" :> "Foo") @@ ("schema" :> DocX) @@ ("x-tag" :> "model")>>),
           Present(<<<<"bar", ("name" :> "Bar") @@ ("schema" :> DocArray)
                               @@ ("x-tag" :> "model")>>>>))}

\* ------------------------------------------------------------ the document

\* this.openAPI: components and components.schemas may be absent.
OpenAPI(hasComponents, hasSchemas, schemas) ==
  [components |-> hasComponents, schemasPresent |-> hasSchemas, schemas |-> schemas]

NoSchemas == [k \in {} |-> SchemaValue("a", FALSE, NoExt)]

\* The documents a handler is constructed on.
InitOpenAPIs ==
  {OpenAPI(FALSE, FALSE, NoSchemas), OpenAPI(TRUE, FALSE, NoSchemas),
   OpenAPI(TRUE, TRUE, NoSchemas),
   OpenAPI(TRUE, TRUE, Key("Foo") :> SchemaValue("a", FALSE, NoExt))}

\* Boolean(this.openAPI?.components?.schemas?.[name]); a schema value is an
\* object, which is truthy.
ExistsInComponents(oa, key) ==
  oa.components /\ oa.schemasPresent /\ key \in DOMAIN oa.schemas

\* Mutant: the two objects compared by identity (===); a converted value is
\* never the object the document holds.
IsTheSameSchemaByIdentity(oa, schema, key) == schema = oa.schemas[key] /\ FALSE

\* isDeepStrictEqual(schema, this.openAPI.components.schemas[otherSchemaName])
IsTheSameSchema(oa, schema, key) == schema = oa.schemas[key]

\* Mutant: components.schemas is assigned the new object, not merged with it.
AddToComponentsReplacing(oa, schema, key) == OpenAPI(TRUE, TRUE, (key :> schema))

\* __addToComponents("schemas", schema, name): Object.assign of { [name]: schema }
\* onto components.schemas, creating the containers that are absent.
AddToComponents(oa, schema, key) ==
  IF oa.components
  THEN IF oa.schemasPresent
       THEN [oa EXCEPT !.schemas = (key :> schema) @@ oa.schemas]
       ELSE [oa EXCEPT !.schemasPresent = TRUE, !.schemas = (key :> schema)]
  ELSE OpenAPI(TRUE, TRUE, (key :> schema))

\* ------------------------------------------------------------- resolution

\* An error message, as the sequence of its parts; message.includes(s) is
\* "s is one of the parts".
Includes(message, part) == \E i \in 1..Len(message) : message[i] = part

MissingPathMessage == <<"Expected a file path, URL, or object. Got undefined">>

\* An Error a resolution fails with: its message and, for an aggregate error,
\* its list of sub-errors (error.errors; hasErrors is the truthiness of that
\* field: a list, even an empty one, is truthy).
Err(message, hasErrors, errors) ==
  [type |-> "Error", message |-> message, hasErrors |-> hasErrors, errors |-> errors]

SubErr(message) == Err(message, FALSE, <<>>)

NoErr == [type |-> "none"]

MissingPathError == SubErr(MissingPathMessage)

TimeoutError == SubErr(<<"timeout">>)

\* The failures of a resolution that are tried.
ResolveErrors ==
  {TimeoutError,
   SubErr(<<"HTTP ERROR", "404">>),
   Err(<<"2 errors occurred">>, TRUE,
       <<TimeoutError, SubErr(<<"Error downloading", "HTTP ERROR", "500">>)>>),
   Err(<<"3 errors occurred">>, TRUE,
       <<TimeoutError, SubErr(<<"HTTP ERROR", "404">>), SubErr(<<"HTTP ERROR", "500">>)>>),
   Err(<<"HTTP ERROR", "404">>, TRUE, <<TimeoutError>>),
   Err(<<"0 errors occurred">>, TRUE, <<>>)}

\* $RefParser.bundle then $RefParser.dereference: every $ref replaced by what
\* it refers to, but for a root $ref, which is left as { $ref: "#" }.
Dereference(doc) == [doc EXCEPT !.hasRef = FALSE]

\* Mutant: the $ref is deleted, and no property assigned to the document.
RecoveredWithoutProperties(doc) == [doc EXCEPT !.rootRef = @ - 1, !.body = "none"]

\* The recovery of __dereferenceSchema: the properties of the definition the
\* bundled root $ref names are assigned to the document and its $ref deleted.
Recovered(doc) == [doc EXCEPT !.rootRef = @ - 1]

\* What __dereferenceSchema(schema) can settle with: the dereferenced document
\* (and the number of recovery passes made), or the error $RefParser rejects
\* with.  With no document $RefParser rejects with the missing-path error; a
\* document fails on fetching a $ref.  A result { $ref: "#" } is recovered
\* and __dereferenceSchema run again on it.
RECURSIVE DereferenceSchema(_)
DereferenceSchema(schema) ==
  IF schema = Undefined
  THEN {[ok |-> FALSE, doc |-> Undefined, err |-> MissingPathError, recoveries |-> 0]}
  ELSE (IF schema.hasRef
        THEN {[ok |-> FALSE, doc |-> Undefined, err |-> e, recoveries |-> 0] :
                e \in ResolveErrors}
        ELSE {})
       \cup (IF Dereference(schema).rootRef > 0
             THEN {[o EXCEPT !.recoveries = @ + 1] :
                     o \in DereferenceSchema(Recovered(Dereference(schema)))}
             ELSE {[ok |-> TRUE, doc |-> Dereference(schema), err |-> NoErr,
                    recoveries |-> 0]})

\* The Error __HTTPError throws.
DereferencingError(message, model) ==
  [type |-> "Error", text |-> "There was an error dereferencing",
   name |-> model.name, message |-> message, model |-> model]

\* __HTTPError(error, model): the Error thrown, or NoErr when it returns.
HTTPError(error, model) ==
  IF Includes(error.message, "HTTP ERROR")
  THEN DereferencingError(error.message, model)
  ELSE NoErr

\* Mutant: only the sub-error at index i is checked.
HTTPErrorsFirstOnly(errors, i, model) ==
  IF i > Len(errors) THEN NoErr ELSE HTTPError(errors[i], model)

\* The loop of __checkForHTTPErrorsAndThrow over error.errors, from index i.
RECURSIVE HTTPErrorsFrom(_, _, _)
HTTPErrorsFrom(errors, i, model) ==
  IF i > Len(errors) THEN NoErr
  ELSE IF HTTPError(errors[i], model) # NoErr THEN HTTPError(errors[i], model)
  ELSE HTTPErrorsFrom(errors, i + 1, model)

\* __checkForHTTPErrorsAndThrow(error, model): the Error thrown, or NoErr.
CheckForHTTPErrorsAndThrow(error, model) ==
  IF error.hasErrors
  THEN HTTPErrorsFrom(error.errors, 1, model)
  ELSE HTTPError(error, model)

\* Mutant: the missing-path error is swallowed like any other.
CheckForMissingPathNeverThrows(error) == NoErr

\* Mutant: the error rethrown whatever its message.
CheckForMissingPathAlwaysThrows(error) == error

\* __checkForMissingPathAndThrow(error): the error thrown, or NoErr.
CheckForMissingPathAndThrow(error) ==
  IF error.message = MissingPathMessage THEN error ELSE NoErr

\* The catch handler of __dereferenceSchema in __dereferenceAndConvert: the
\* error it throws, or NoErr when it returns the schema as given.
DereferenceCatch(error, model) ==
  IF CheckForHTTPErrorsAndThrow(error, model) # NoErr
  THEN CheckForHTTPErrorsAndThrow(error, model)
  ELSE CheckForMissingPathAndThrow(error)

\* ------------------------------------------------------------- conversion

ConverterError == [type |-> "Error", text |-> "the converter failed"]

NoSet == [schemas |-> [t |-> "none"]]

\* SchemaConvertor.convert(document, name): { schemas: { [name]: ..., ... } },
\* the nested definition hoisted beside the primary entry.  conv says which
\* other output the converter gives for the document, or that it throws; with
\* no document it throws.
Convert(doc, name) ==
  LET primary == <<name, SchemaValue(doc.body, Unresolved(doc), doc.x)>>
      hoisted == IF doc.aux # "none" /\ name # AuxName
                 THEN <<<<AuxName, SchemaValue(doc.aux, FALSE, NoExt)>>>>
                 ELSE <<>>
  IN  CASE doc = Undefined ->
             [threw |-> TRUE, err |-> ConverterError, out |-> NoSet]
        [] doc.conv = "object" ->
             [threw |-> FALSE, err |-> NoErr,
              out |-> [schemas |-> [t |-> "object", entries |-> <<primary>> \o hoisted]]]
        [] doc.conv = "array" ->
             [threw |-> FALSE, err |-> NoErr,
              out |-> [schemas |-> [t |-> "array", items |-> <<primary[2]>>]]]
        [] doc.conv = "null" ->
             [threw |-> FALSE, err |-> NoErr, out |-> [schemas |-> [t |-> "null"]]]
        [] doc.conv = "missing" ->
             [threw |-> FALSE, err |-> NoErr, out |-> [schemas |-> [t |-> "undefined"]]]
        [] doc.conv = "number" ->
             [threw |-> FALSE, err |-> NoErr, out |-> [schemas |-> [t |-> "number"]]]
        [] OTHER ->
             [threw |-> TRUE, err |-> ConverterError, out |-> NoSet]

\* The keys of the model that start with "x-".
ExtensionKeys(model) == {k \in DOMAIN model.extra : StartsWithXDash(k)}

\* value[key] = model[key] for every extension key of the model.
WithExtensions(value, model) ==
  [value EXCEPT !.x = [k \in DOMAIN value.x \cup ExtensionKeys(model) |->
                         IF k \in ExtensionKeys(model) THEN model.extra[k]
                         ELSE value.x[k]]]

\* The loop over Object.entries(model) in __dereferenceAndConvert: every key of
\* the model starting with "x-" is set on convertedSchemas.schemas[name], when
\* that entry exists (only an object's entry of that name does).
OverlayExtensions(converted, name, model) ==
  IF converted.schemas.t = "object"
  THEN [schemas |-> [converted.schemas EXCEPT !.entries =
          [i \in 1..Len(converted.schemas.entries) |->
             IF converted.schemas.entries[i][1] = name
             THEN <<name, WithExtensions(converted.schemas.entries[i][2], model)>>
             ELSE converted.schemas.entries[i]]]]
  ELSE converted

\* __dereferenceAndConvert(schema, name, model), given what
\* __dereferenceSchema settled with: whether it rejects and with which error,
\* whether and on what the converter was called, and the set it returns.
DereferenceAndConvert(schema, name, model, outcome) ==
  LET thrown == IF outcome.ok THEN NoErr ELSE DereferenceCatch(outcome.err, model)
      dereferencedSchema == IF outcome.ok THEN outcome.doc ELSE schema
      conv == Convert(dereferencedSchema, name)
  IN  IF thrown # NoErr
      THEN [rejected |-> TRUE, err |-> thrown, converterCalled |-> FALSE,
            convertArg |-> <<Undefined, name>>, set |-> NoSet]
      ELSE IF conv.threw
      THEN [rejected |-> TRUE, err |-> conv.err, converterCalled |-> TRUE,
            convertArg |-> <<dereferencedSchema, name>>, set |-> NoSet]
      ELSE [rejected |-> FALSE, err |-> NoErr, converterCalled |-> TRUE,
            convertArg |-> <<dereferencedSchema, name>>,
            set |-> OverlayExtensions(conv.out, name, model)]

NoResult == [rejected |-> FALSE, err |-> NoErr, converterCalled |-> FALSE,
             convertArg |-> <<Undefined, "">>, set |-> NoSet]

\* ---------------------------------------------------------------- merging

\* Object.entries(convertedSchemas.schemas) in createSchema: an object's own
\* entries; an array's items under their indices "0", "1", ...; none for a
\* number.  (For null and undefined Object.entries throws a TypeError.)
IndexName(i) == IF i = 1 THEN "0" ELSE "1"

ObjectEntries(schemas) ==
  CASE schemas.t = "object" -> schemas.entries
    [] schemas.t = "array" ->
         [i \in 1..Len(schemas.items) |-> <<IndexName(i), schemas.items[i]>>]
    [] OTHER -> <<>>

EntriesTypeError ==
  [type |-> "TypeError", text |-> "Cannot convert undefined or null to object"]

\* Mutant: an auxiliary entry that differs from the one present is renamed
\* as a primary entry is, and the one present kept.
MergeEntrySuffixAlways(st, entry, originalName) ==
  LET schemaName == entry[1]
      schemaValue == entry[2]
  IN  IF ExistsInComponents(st.oa, Key(schemaName))
      THEN IF ~IsTheSameSchema(st.oa, schemaValue, Key(schemaName))
           THEN [oa |-> AddToComponents(st.oa, schemaValue,
                                        Suffixed(schemaName, st.uuid + 1)),
                 finalName |-> IF schemaName = originalName
                               THEN Suffixed(schemaName, st.uuid + 1)
                               ELSE st.finalName,
                 uuid |-> st.uuid + 1]
           ELSE st
      ELSE [st EXCEPT !.oa = AddToComponents(st.oa, schemaValue, Key(schemaName))]

\* Mutant: a different value is written under its own name, primary or not.
MergeEntryOverwrite(st, entry, originalName) ==
  IF ExistsInComponents(st.oa, Key(entry[1]))
     /\ IsTheSameSchema(st.oa, entry[2], Key(entry[1]))
  THEN st
  ELSE [st EXCEPT !.oa = AddToComponents(st.oa, entry[2], Key(entry[1]))]

\* The body of createSchema's loop for one entry.  st: the document, the final
\* name so far, and the number of uuids minted.
MergeEntry(st, entry, originalName) ==
  LET schemaName == entry[1]
      schemaValue == entry[2]
  IN  IF ExistsInComponents(st.oa, Key(schemaName))
      THEN IF ~IsTheSameSchema(st.oa, schemaValue, Key(schemaName))
           THEN IF schemaName = originalName
                THEN [oa |-> AddToComponents(st.oa, schemaValue,
                                             Suffixed(schemaName, st.uuid + 1)),
                      finalName |-> Suffixed(schemaName, st.uuid + 1),
                      uuid |-> st.uuid + 1]
                ELSE [st EXCEPT !.oa = AddToComponents(st.oa, schemaValue, Key(schemaName))]
           ELSE st
      ELSE [st EXCEPT !.oa = AddToComponents(st.oa, schemaValue, Key(schemaName))]

\* createSchema's loop over the entries, from entry i.
RECURSIVE MergeEntries(_, _, _, _)
MergeEntries(st, entries, i, originalName) ==
  IF i > Len(entries) THEN st
  ELSE MergeEntries(MergeEntry(st, entries[i], originalName), entries, i + 1,
                    originalName)

Return(value) == [kind |-> "return", value |-> value]

Throw(err) == [kind |-> "throw", value |-> err]

NoReturn == [kind |-> "none", value |-> Undefined]

\* Mutant: the reference returned is made of the requested name.
CreateSchemaBodyReturnsName(oa, uuid, name, converted) ==
  IF converted.schemas.t \in {"null", "undefined"}
  THEN [oa |-> oa, uuid |-> uuid, finalName |-> Key(name),
        result |-> Throw(EntriesTypeError)]
  ELSE LET st == MergeEntries([oa |-> oa, finalName |-> Key(name), uuid |-> uuid],
                              ObjectEntries(converted.schemas), 1, name)
       IN  [oa |-> st.oa, uuid |-> st.uuid, finalName |-> Key(name),
            result |-> Return(Ref(Key(name)))]

\* createSchema after __dereferenceAndConvert returned convertedSchemas: the
\* loop and the return.
CreateSchemaBody(oa, uuid, name, converted) ==
  IF converted.schemas.t \in {"null", "undefined"}
  THEN [oa |-> oa, uuid |-> uuid, finalName |-> Key(name),
        result |-> Throw(EntriesTypeError)]
  ELSE LET st == MergeEntries([oa |-> oa, finalName |-> Key(name), uuid |-> uuid],
                              ObjectEntries(converted.schemas), 1, name)
       IN  [oa |-> st.oa, uuid |-> st.uuid, finalName |-> st.finalName,
            result |-> Return(Ref(st.finalName))]

\* The Error addModelsToOpenAPI throws for a converted set that is no mapping.
ConvertingError(model, converted) ==
  [type |-> "Error", text |-> "There was an error converting",
   name |-> model.name, model |-> model, converted |-> converted]

\* typeof schemas === "object" && !Array.isArray(schemas) && schemas !== null
IsMappingObject(schemas) ==
  /\ schemas.t \in {"object", "array", "null"}
  /\ schemas.t # "array"
  /\ schemas.t # "null"

\* Mutant: the reference to the entry is cached under the model's name for
\* every entry of the set.
AddModelEntryCachesEach(st, entry, modelName) ==
  LET schemaName == entry[1]
      schemaValue == entry[2]
  IN  [oa |-> AddToComponents(st.oa, schemaValue, Key(schemaName)),
       refs |-> (modelName :> Ref(Key(schemaName))) @@ st.refs]

\* The body of addModelsToOpenAPI's inner loop for one entry.
AddModelEntry(st, entry, modelName) ==
  LET schemaName == entry[1]
      schemaValue == entry[2]
  IN  [oa |-> AddToComponents(st.oa, schemaValue, Key(schemaName)),
       refs |-> IF schemaName = modelName
                THEN (schemaName :> Ref(Key(modelName))) @@ st.refs
                ELSE st.refs]

RECURSIVE AddModelEntries(_, _, _, _)
AddModelEntries(st, entries, i, modelName) ==
  IF i > Len(entries) THEN st
  ELSE AddModelEntries(AddModelEntry(st, entries[i], modelName), entries, i + 1,
                       modelName)

\* Mutant: the entries are merged first and the shape is checked afterwards.
AddModelBodyCheckAfter(oa, refs, model, converted) ==
  LET st == AddModelEntries([oa |-> oa, refs |-> refs],
                            ObjectEntries(converted.schemas), 1, model.name)
  IN  [oa |-> st.oa, refs |-> st.refs,
       result |-> IF IsMappingObject(converted.schemas) THEN NoReturn
                  ELSE Throw(ConvertingError(model, converted))]

\* addModelsToOpenAPI for one model, after __dereferenceAndConvert returned
\* convertedSchemas: the shape check, then the inner loop or the throw.
AddModelBody(oa, refs, model, converted) ==
  IF IsMappingObject(converted.schemas)
  THEN LET st == AddModelEntries([oa |-> oa, refs |-> refs],
                                 converted.schemas.entries, 1, model.name)
       IN  [oa |-> st.oa, refs |-> st.refs, result |-> NoReturn]
  ELSE [oa |-> oa, refs |-> refs, result |-> Throw(ConvertingError(model, converted))]

\* Mutant: a model that failed is skipped and the loop goes on.
LoopContinuesAfterThrow(threw, idx, n) == idx < n

\* The for loop over this.models goes on to the model after idx: the body did
\* not throw and a model is left.
LoopContinues(threw, idx, n) == ~threw /\ idx < n

\* Mutant: the test of the schema inverted.
FastPathInverted(refs, name, schema) == name \in DOMAIN refs /\ schema # Undefined

\* this.modelReferences[name] && schema === undefined
FastPath(refs, name, schema) == name \in DOMAIN refs /\ schema = Undefined

\* ------------------------------------------------------------------ state

VARIABLES
  openAPI,          \* this.openAPI
  modelReferences,  \* this.modelReferences
  models,           \* this.models
  calls,            \* the call each caller has made last, and where it stands
  uuids,            \* uuids minted so far
  nCalls,           \* calls started so far
  last,             \* the last merge that completed (history)
  serverless        \* serverless.service, which the handler is constructed on

vars == <<openAPI, modelReferences, models, calls, uuids, nCalls, last, serverless>>

Callers == {1, 2}

NoRefs == [n \in {} |-> Ref(Key(""))]

NoOutcome == [ok |-> FALSE, doc |-> Undefined, err |-> NoErr, recoveries |-> 0]

NoLast == [op |-> "none", name |-> "", sets |-> <<>>, after |-> NoSchemas,
           renamed |-> FALSE]

Snapshot(oa, refs) == [oa |-> oa, refs |-> refs]

\* A call: the operation and its arguments; pc, where it stands; idx, model and
\* schema, the model being processed; outcome, what __dereferenceSchema settled
\* with; conv, what __dereferenceAndConvert settled with; result, what the call
\* settled with.  History: trace, the resolver, converter and merge steps so
\* far; pre, the document and cache when the processing of the model started;
\* sets, the converted sets merged; renamed, a suffixed name was minted; prev,
\* the last merge completed when the call started.
Idle ==
  [op |-> "none", pc |-> "idle", name |-> "", schema |-> Undefined, idx |-> 0,
   model |-> PlainModel("", Undefined), outcome |-> NoOutcome, conv |-> NoResult,
   result |-> NoReturn, trace |-> <<>>, pre |-> Snapshot(OpenAPI(FALSE, FALSE, NoSchemas), NoRefs),
   sets |-> <<>>, renamed |-> FALSE, prev |-> NoLast]

Init ==
  /\ openAPI \in InitOpenAPIs
  /\ modelReferences = NoRefs
  /\ models \in ModelLists
  /\ serverless \in {s \in ConfigurationsTried : StandardiseModels(s) = models}
  /\ calls = [p \in Callers |-> Idle]
  /\ uuids = 0
  /\ nCalls = 0
  /\ last = NoLast

\* A caller may call: its last call has settled, and calls are left.
MayCall(p) == calls[p].pc \in {"idle", "done"} /\ nCalls < MaxCalls

\* createSchema(name, schema) up to its first await: the cached reference is
\* returned, or __dereferenceAndConvert calls __dereferenceSchema.
CallCreateSchema(p, name, schema) ==
  /\ MayCall(p)
  /\ nCalls' = nCalls + 1
  /\ LET c == [Idle EXCEPT !.op = "createSchema", !.name = name, !.schema = schema,
                           !.idx = 1, !.model = PlainModel(name, schema),
                           !.pre = Snapshot(openAPI, modelReferences),
                           !.prev = last]
     IN  calls' = [calls EXCEPT ![p] =
           IF FastPath(modelReferences, name, schema)
           THEN [c EXCEPT !.pc = "done", !.result = Return(modelReferences[name])]
           ELSE [c EXCEPT !.pc = "resolving", !.trace = <<<<"resolve", 1>>>>]]
  /\ UNCHANGED <<openAPI, modelReferences, models, serverless, uuids, last>>

\* addModelsToOpenAPI() up to its first await: nothing to do for no models, or
\* the first model's __dereferenceAndConvert calls __dereferenceSchema.
CallAddModels(p) ==
  /\ MayCall(p)
  /\ nCalls' = nCalls + 1
  /\ LET c == [Idle EXCEPT !.op = "addModels",
                           !.pre = Snapshot(openAPI, modelReferences),
                           !.prev = last]
     IN  calls' = [calls EXCEPT ![p] =
           IF models = <<>>
           THEN [c EXCEPT !.pc = "done", !.result = Return(Undefined)]
           ELSE [c EXCEPT !.pc = "resolving", !.idx = 1, !.model = models[1],
                          !.name = models[1].name, !.schema = models[1].schema,
                          !.trace = <<<<"resolve", 1>>>>]]
  /\ UNCHANGED <<openAPI, modelReferences, models, serverless, uuids, last>>

\* __dereferenceSchema settles.
Resolve(p) ==
  /\ calls[p].pc = "resolving"
  /\ \E o \in DereferenceSchema(calls[p].schema) :
       calls' = [calls EXCEPT ![p].pc = "resolved", ![p].outcome = o]
  /\ UNCHANGED <<openAPI, modelReferences, models, serverless, uuids, nCalls, last>>

\* __dereferenceAndConvert from the settling of __dereferenceSchema to its end.
DereferenceAndConvertStep(p) ==
  /\ calls[p].pc = "resolved"
  /\ LET c == calls[p]
         r == DereferenceAndConvert(c.schema, c.name, c.model, c.outcome)
     IN  calls' = [calls EXCEPT ![p] =
           [c EXCEPT !.pc = "converted", !.conv = r,
                     !.trace = IF r.converterCalled
                               THEN Append(c.trace, <<"convert", c.idx>>)
                               ELSE c.trace]]
  /\ UNCHANGED <<openAPI, modelReferences, models, serverless, uuids, nCalls, last>>

\* Mutant: the merge works on the document as it was when the processing of
\* the model started, before the await.
MergeDocumentBeforeAwait(c) == c.pre.oa

\* this.openAPI as the merge loop of a call reads it: the loop runs after the
\* await of __dereferenceAndConvert, on the document as it is then.
MergeDocument(c) == openAPI

\* createSchema from the settling of __dereferenceAndConvert to its end.
CreateSchemaStep(p) ==
  /\ calls[p].pc = "converted"
  /\ calls[p].op = "createSchema"
  /\ LET c == calls[p]
         b == CreateSchemaBody(MergeDocument(c), uuids, c.name, c.conv.set)
     IN  IF c.conv.rejected \/ b.result.kind = "throw"
         THEN /\ calls' = [calls EXCEPT ![p] =
                   [c EXCEPT !.pc = "done",
                             !.result = IF c.conv.rejected THEN Throw(c.conv.err)
                                        ELSE b.result]]
              /\ last' = NoLast
              /\ UNCHANGED <<openAPI, uuids>>
         ELSE /\ openAPI' = b.oa
              /\ uuids' = b.uuid
              /\ calls' = [calls EXCEPT ![p] =
                   [c EXCEPT !.pc = "done", !.result = b.result,
                             !.trace = Append(c.trace, <<"merge", 1>>),
                             !.sets = <<c.conv.set>>,
                             !.renamed = (b.finalName # Key(c.name))]]
              /\ last' = [op |-> "createSchema", name |-> c.name,
                          sets |-> <<c.conv.set>>, after |-> b.oa.schemas,
                          renamed |-> (b.finalName # Key(c.name))]
  /\ UNCHANGED <<modelReferences, models, serverless, nCalls>>

\* addModelsToOpenAPI from the settling of a model's __dereferenceAndConvert to
\* the next await (the next model's resolution) or to its end.  What
\* __dereferenceAndConvert rejects with is an Error, which the catch of the
\* call rethrows.
AddModelsStep(p) ==
  /\ calls[p].pc = "converted"
  /\ calls[p].op = "addModels"
  /\ LET c == calls[p]
         b == IF c.conv.rejected
              THEN [oa |-> openAPI, refs |-> modelReferences,
                    result |-> Throw(c.conv.err)]
              ELSE AddModelBody(MergeDocument(c), modelReferences, c.model, c.conv.set)
         threw == b.result.kind = "throw"
         merged == [c EXCEPT !.trace = IF threw THEN c.trace
                                       ELSE Append(c.trace, <<"merge", c.idx>>),
                             !.sets = IF threw THEN c.sets
                                      ELSE Append(c.sets, c.conv.set)]
     IN  /\ openAPI' = b.oa
         /\ modelReferences' = b.refs
         /\ IF LoopContinues(threw, c.idx, Len(models))
            THEN /\ calls' = [calls EXCEPT ![p] =
                      [merged EXCEPT !.pc = "resolving", !.idx = c.idx + 1,
                                     !.model = models[c.idx + 1],
                                     !.name = models[c.idx + 1].name,
                                     !.schema = models[c.idx + 1].schema,
                                     !.outcome = NoOutcome, !.conv = NoResult,
                                     !.pre = Snapshot(b.oa, b.refs),
                                     !.trace = Append(merged.trace,
                                                      <<"resolve", c.idx + 1>>)]]
                 /\ last' = NoLast
            ELSE /\ calls' = [calls EXCEPT ![p] =
                      [merged EXCEPT !.pc = "done",
                                     !.result = IF threw THEN b.result
                                                ELSE Return(Undefined)]]
                 /\ last' = IF threw THEN NoLast
                            ELSE [op |-> "addModels", name |-> "",
                                  sets |-> merged.sets, after |-> b.oa.schemas,
                                  renamed |-> FALSE]
  /\ UNCHANGED <<models, serverless, uuids, nCalls>>

\* What caller p can do.
Step(p) ==
  \/ \E in \in CreateInputs : CallCreateSchema(p, in[1], in[2])
  \/ CallAddModels(p)
  \/ Resolve(p)
  \/ DereferenceAndConvertStep(p)
  \/ CreateSchemaStep(p)
  \/ AddModelsStep(p)

\* One caller, which awaits each call before it makes the next.
Next == Step(1)

Spec == Init /\ [][Next]_vars

\* The inputs of createSchema(name, schema) that concurrent callers try.
ConcurrentInputs ==
  {<<"Foo", DocA>>, <<"Foo", DocB>>, <<"Foo", DocRefAux>>, <<"Bar", DocA>>}

\* What caller p can do beside another caller.
StepConcurrent(p) ==
  \/ \E in \in ConcurrentInputs :
       nCalls < MaxConcurrentCalls /\ CallCreateSchema(p, in[1], in[2])
  \/ nCalls < MaxConcurrentCalls /\ CallAddModels(p)
  \/ Resolve(p)
  \/ DereferenceAndConvertStep(p)
  \/ CreateSchemaStep(p)
  \/ AddModelsStep(p)

\* Two callers, each awaiting its own calls only: the calls of one interleave
\* with those of the other at their awaits.
NextConcurrent == StepConcurrent(1) \/ StepConcurrent(2)

SpecConcurrent == Init /\ [][NextConcurrent]_vars

\* The constructor up to __standardiseModels: this.models is not assigned yet
\* (it is shown empty), on any of the configurations.
InitConstructor ==
  /\ serverless \in Configurations
  /\ models = <<>>
  /\ openAPI = OpenAPI(FALSE, FALSE, NoSchemas)
  /\ modelReferences = NoRefs
  /\ calls = [p \in Callers |-> Idle]
  /\ uuids = 0
  /\ nCalls = 0
  /\ last = NoLast

\* this.__standardiseModels() in the constructor.
StandardiseModelsStep ==
  /\ models = <<>>
  /\ models' = StandardiseModels(serverless)
  /\ UNCHANGED <<openAPI, modelReferences, calls, uuids, nCalls, last, serverless>>

\* The construction of a handler.
SpecConstructor == InitConstructor /\ [][StandardiseModelsStep]_vars

\* ----------------------------------------------------------------- claims

\* The value of the entry called name in a converted set that is an object.
HasEntry(set, name) ==
  /\ set.schemas.t = "object"
  /\ \E i \in 1..Len(set.schemas.entries) : set.schemas.entries[i][1] = name

EntryOf(set, name) ==
  LET i == CHOOSE i \in 1..Len(set.schemas.entries) : set.schemas.entries[i][1] = name
  IN  set.schemas.entries[i][2]

\* C1: once components.schemas[k] holds a value, no step replaces it with a
\* value that is not deep-equal to it (nor removes it).
C1_NoCollapse ==
  [][\A k \in DOMAIN openAPI.schemas :
       /\ k \in DOMAIN openAPI'.schemas
       /\ openAPI'.schemas[k] = openAPI.schemas[k]]_vars

\* A createSchema(name, s) that returned, with name present in the document
\* when it was called and the converted primary entry different from it.
PrimaryCollision(c) ==
  /\ c.op = "createSchema"
  /\ c.pc = "done"
  /\ c.result.kind = "return"
  /\ HasEntry(c.conv.set, c.name)
  /\ ExistsInComponents(c.pre.oa, Key(c.name))
  /\ EntryOf(c.conv.set, c.name) # c.pre.oa.schemas[Key(c.name)]

\* The keys name-<suffix> that a call added.
NewSuffixed(c) ==
  {k \in DOMAIN openAPI.schemas \ DOMAIN c.pre.oa.schemas :
     k.base = c.name /\ k.sfx # 0}

\* C2: createSchema("Foo", s) on a document that holds Foo = a, with the
\* converted primary entry b different from a: Foo is still a, exactly one new
\* key Foo-<suffix> holds b, and the returned string refers to that key.
C2_CollisionOnPrimary ==
  \A p \in Callers :
    PrimaryCollision(calls[p]) =>
      /\ openAPI.schemas[Key(calls[p].name)] = calls[p].pre.oa.schemas[Key(calls[p].name)]
      /\ Cardinality(NewSuffixed(calls[p])) = 1
      /\ \A k \in NewSuffixed(calls[p]) :
           /\ openAPI.schemas[k] = EntryOf(calls[p].conv.set, calls[p].name)
           /\ calls[p].result.value = Ref(k)

C2_Witness == \E p \in Callers : PrimaryCollision(calls[p])

\* A call that merged, right after a call of the same operation, under the
\* same name, that merged the same converted sets.
MergedTwice(c) ==
  /\ c.pc = "done"
  /\ c.result.kind = "return"
  /\ c.sets # <<>>
  /\ c.prev.op = c.op
  /\ c.op = "createSchema" => c.prev.name = c.name
  /\ c.prev.sets = c.sets

\* C3 as stated: merging the same converted set under the same name twice in a
\* row leaves components.schemas as it was after the first merge, whatever the
\* document held before.
C3_Idempotent ==
  \A p \in Callers :
    MergedTwice(calls[p]) => openAPI.schemas = calls[p].prev.after

\* C3 as amended: ... when the first merge minted no suffixed name.
C3_IdempotentUnlessRenamed ==
  \A p \in Callers :
    (MergedTwice(calls[p]) /\ ~calls[p].prev.renamed) =>
      openAPI.schemas = calls[p].prev.after

C3_Witness ==
  \E p \in Callers :
    /\ MergedTwice(calls[p])
    /\ ~calls[p].prev.renamed
    /\ calls[p].op = "createSchema"
    /\ HasEntry(calls[p].conv.set, calls[p].name)

\* createSchema(name) called with no schema while modelReferences[name] is set.
CachedCall(c) ==
  /\ c.op = "createSchema"
  /\ c.schema = Undefined
  /\ c.name \in DOMAIN c.pre.refs

\* C4: createSchema(name) with no schema and modelReferences[name] set returns
\* modelReferences[name] at once: no resolver or converter call, and
\* components.schemas and modelReferences are as they were.
C4_CacheFastPath ==
  \A p \in Callers :
    CachedCall(calls[p]) =>
      /\ calls[p].pc = "done"
      /\ calls[p].result = Return(calls[p].pre.refs[calls[p].name])
      /\ calls[p].trace = <<>>
      /\ ~calls[p].conv.converterCalled
      /\ openAPI = calls[p].pre.oa
      /\ modelReferences = calls[p].pre.refs

C4_Witness == \E p \in Callers : CachedCall(calls[p])

\* The name the j-th set a call merged was requested under.
RequestedName(c, j) == IF c.op = "addModels" THEN models[j].name ELSE c.name

\* C5: when a merge stores the primary entry under the requested name (no
\* suffixed rename), modelReferences[name] is "#/components/schemas/" + name
\* afterwards, in createSchema as in addModelsToOpenAPI.
C5_CacheRecorded ==
  \A p \in Callers :
    \A j \in 1..Len(calls[p].sets) :
      (/\ calls[p].pc = "done"
       /\ HasEntry(calls[p].sets[j], RequestedName(calls[p], j))
       /\ ~calls[p].renamed) =>
        /\ RequestedName(calls[p], j) \in DOMAIN modelReferences
        /\ modelReferences[RequestedName(calls[p], j)]
             = Ref(Key(RequestedName(calls[p], j)))

\* __dereferenceSchema rejected.
ResolutionFailed(c) == c.outcome # NoOutcome /\ ~c.outcome.ok

\* C6: a resolution failure whose message contains "HTTP ERROR", with or
\* without a list of sub-errors, is never recovered: no fallback, no converter
\* call, and the call rejects with the error naming the model and embedding
\* the message and the model.
C6_HTTPNeverRecovered ==
  \A p \in Callers :
    (/\ calls[p].pc \in {"converted", "done"}
     /\ ResolutionFailed(calls[p])
     /\ Includes(calls[p].outcome.err.message, "HTTP ERROR")) =>
      /\ calls[p].conv.rejected
      /\ ~calls[p].conv.converterCalled
      /\ calls[p].conv.err
           = DereferencingError(calls[p].outcome.err.message, calls[p].model)
      /\ calls[p].pc = "done" => calls[p].result = Throw(calls[p].conv.err)

\* A resolution failure with no "HTTP ERROR" in its message nor in a
\* sub-error's, and not the missing-path error.
Recoverable(e) ==
  /\ ~Includes(e.message, "HTTP ERROR")
  /\ \A i \in 1..Len(e.errors) : ~Includes(e.errors[i].message, "HTTP ERROR")
  /\ e.message # MissingPathMessage

FellBack(c) ==
  /\ c.pc \in {"converted", "done"}
  /\ ResolutionFailed(c)
  /\ Recoverable(c.outcome.err)

\* C7: after a recoverable resolution failure the converter is called on the
\* schema as given (unresolved) and the model name, its result is what
\* __dereferenceAndConvert returns, and the failure reaches no caller.
C7_RecoverableFallback ==
  \A p \in Callers :
    FellBack(calls[p]) =>
      /\ calls[p].conv.converterCalled
      /\ calls[p].conv.convertArg = <<calls[p].schema, calls[p].name>>
      /\ calls[p].conv.rejected => calls[p].conv.err = ConverterError
      /\ (~calls[p].conv.rejected /\ HasEntry(calls[p].conv.set, calls[p].name)) =>
           /\ EntryOf(calls[p].conv.set, calls[p].name).v = calls[p].schema.body
           /\ EntryOf(calls[p].conv.set, calls[p].name).ref = Unresolved(calls[p].schema)
      /\ (calls[p].pc = "done" /\ calls[p].result.kind = "throw") =>
           calls[p].result.value \in {ConverterError}

C7_Witness ==
  \E p \in Callers :
    /\ FellBack(calls[p])
    /\ calls[p].outcome.err = TimeoutError
    /\ calls[p].pc = "done"
    /\ calls[p].result.kind = "return"

\* C8: a converter output whose schemas field is missing, null, an array or
\* not an object makes addModelsToOpenAPI and createSchema fail with the error
\* embedding the model and the converted output, and adds no key.
C8_ShapeErrorFatal ==
  \A p \in Callers :
    (/\ calls[p].pc = "done"
     /\ calls[p].conv.converterCalled
     /\ ~calls[p].conv.rejected
     /\ calls[p].conv.set.schemas.t \in {"undefined", "null", "array", "number"}) =>
      /\ calls[p].result = Throw(ConvertingError(calls[p].model, calls[p].conv.set))
      /\ DOMAIN openAPI.schemas = DOMAIN calls[p].pre.oa.schemas

\* C9: when a model fails fatally, the document and the cache are what they
\* were when the processing of that model started.
C9_NoPartialMerge ==
  \A p \in Callers :
    (calls[p].pc = "done" /\ calls[p].result.kind = "throw") =>
      /\ openAPI = calls[p].pre.oa
      /\ modelReferences = calls[p].pre.refs

C9_Witness ==
  \E p \in Callers :
    /\ calls[p].pc = "done"
    /\ calls[p].result.kind = "throw"
    /\ calls[p].op = "addModels"
    /\ calls[p].conv.converterCalled
    /\ ~calls[p].conv.rejected
    /\ calls[p].sets # <<>>

\* The j-th step of a batch that runs its models one after the other:
\* resolve 1, convert 1, merge 1, resolve 2, ...
InOrder(j) ==
  <<CASE (j - 1) % 3 = 0 -> "resolve"
      [] (j - 1) % 3 = 1 -> "convert"
      [] OTHER -> "merge",
    ((j - 1) \div 3) + 1>>

\* The entry of a merged set is in the document, unless a later merged set
\* wrote the same name.
Stays(c, j, i) ==
  LET e == ObjectEntries(c.sets[j].schemas)[i]
  IN  /\ Key(e[1]) \in DOMAIN openAPI.schemas
      /\ \/ openAPI.schemas[Key(e[1])] = e[2]
         \/ \E jj \in (j + 1)..Len(c.sets) : HasEntry(c.sets[jj], e[1])

\* C10: addModelsToOpenAPI resolves, converts and merges its models one after
\* the other in the order of this.models; when model k fails the call rejects
\* with that error, nothing of a later model is resolved, converted or merged,
\* and what the models before k merged stays in the document.
C10_SequentialBatch ==
  \A p \in Callers :
    calls[p].op = "addModels" =>
      /\ \A j \in 1..Len(calls[p].trace) : calls[p].trace[j] = InOrder(j)
      /\ (/\ calls[p].pc = "done"
          /\ calls[p].trace # <<>>
          /\ \/ calls[p].conv.rejected
             \/ ~IsMappingObject(calls[p].conv.set.schemas)) =>
           /\ calls[p].result.kind = "throw"
           /\ calls[p].conv.rejected => calls[p].result.value = calls[p].conv.err
      /\ (calls[p].pc = "done" /\ calls[p].result.kind = "throw") =>
           /\ Len(calls[p].sets) = calls[p].idx - 1
           /\ \A j \in 1..Len(calls[p].trace) : calls[p].trace[j][2] <= calls[p].idx
           /\ \A j \in 1..Len(calls[p].sets) :
                \A i \in 1..Len(ObjectEntries(calls[p].sets[j].schemas)) :
                  Stays(calls[p], j, i)
      /\ (calls[p].pc = "done" /\ calls[p].result.kind = "return") =>
           Len(calls[p].sets) = Len(models)

C10_Witness ==
  \E p \in Callers :
    /\ calls[p].op = "addModels"
    /\ calls[p].pc = "done"
    /\ calls[p].result.kind = "throw"
    /\ calls[p].idx = 2
    /\ Len(models) = 3
    /\ Len(calls[p].sets) = 1
    /\ Key(models[1].name) \in DOMAIN openAPI.schemas

\* A createSchema(name, s) that returned, whose converted set holds an
\* auxiliary entry e: its name is not the requested one, it was present in the
\* document when the call was made, and its value differs from the one present.
AuxCollision(c, e) ==
  /\ c.op = "createSchema"
  /\ c.pc = "done"
  /\ c.result.kind = "return"
  /\ e[1] # c.name
  /\ ExistsInComponents(c.pre.oa, Key(e[1]))
  /\ e[2] # c.pre.oa.schemas[Key(e[1])]

\* The primary entry of a call that returned was handled by the primary rules:
\* inserted under the name when the name was absent, the entry present reused
\* when equal, and otherwise kept beside a new suffixed key that is returned.
PrimaryRules(c) ==
  LET k == Key(c.name)
      primary == EntryOf(c.conv.set, c.name)
  IN  IF ~ExistsInComponents(c.pre.oa, k)
      THEN openAPI.schemas[k] = primary /\ c.result.value = Ref(k)
      ELSE /\ openAPI.schemas[k] = c.pre.oa.schemas[k]
           /\ IF primary = c.pre.oa.schemas[k]
              THEN c.result.value = Ref(k)
              ELSE /\ c.result.value.key.base = c.name
                   /\ c.result.value.key.sfx # 0
                   /\ c.result.value.key \in DOMAIN openAPI.schemas
                   /\ openAPI.schemas[c.result.value.key] = primary

\* C11: createSchema("Foo", s) on a document that holds Bar = a, with a
\* converted auxiliary entry Bar = b different from a: afterwards Bar is b, no
\* suffixed key was made for Bar, and Foo and the returned reference are what
\* the primary rules give.
C11_CollisionOnAuxiliary ==
  \A p \in Callers :
    calls[p].conv.set.schemas.t = "object" =>
      \A i \in 1..Len(calls[p].conv.set.schemas.entries) :
        LET e == calls[p].conv.set.schemas.entries[i]
        IN  AuxCollision(calls[p], e) =>
              /\ openAPI.schemas[Key(e[1])] = e[2]
              /\ \A k \in DOMAIN openAPI.schemas \ DOMAIN calls[p].pre.oa.schemas :
                   k.base # e[1]
              /\ HasEntry(calls[p].conv.set, calls[p].name)
              /\ PrimaryRules(calls[p])

\* The auxiliary collision happened, beside a primary entry that was renamed.
C11_Witness ==
  \E p \in Callers :
    /\ calls[p].conv.set.schemas.t = "object"
    /\ \E i \in 1..Len(calls[p].conv.set.schemas.entries) :
         AuxCollision(calls[p], calls[p].conv.set.schemas.entries[i])
    /\ calls[p].renamed

\* The step of caller p is a merge of the converted set of its call, and the
\* set is an object.
MergesObject(p) ==
  /\ calls[p].pc = "converted"
  /\ calls[p].conv.set.schemas.t = "object"
  /\ Len(calls'[p].sets) = Len(calls[p].sets) + 1

\* The names of the entries of a converted set that is an object.
EntryNames(set) ==
  {set.schemas.entries[i][1] : i \in 1..Len(set.schemas.entries)}

\* C12: a merge inserts every entry whose name is not a key of
\* components.schemas unchanged under exactly that name, primary or auxiliary,
\* creating components and components.schemas when absent, and leaves the keys
\* that no entry of the set names as they were.
C12_NoCollisionPassThrough ==
  [][\A p \in Callers :
       MergesObject(p) =>
         /\ \A i \in 1..Len(calls[p].conv.set.schemas.entries) :
              LET e == calls[p].conv.set.schemas.entries[i]
              IN  ~ExistsInComponents(openAPI, Key(e[1])) =>
                    /\ openAPI'.components
                    /\ openAPI'.schemasPresent
                    /\ Key(e[1]) \in DOMAIN openAPI'.schemas
                    /\ openAPI'.schemas[Key(e[1])] = e[2]
         /\ \A k \in DOMAIN openAPI.schemas :
              ~(k.sfx = 0 /\ k.base \in EntryNames(calls[p].conv.set)) =>
                /\ k \in DOMAIN openAPI'.schemas
                /\ openAPI'.schemas[k] = openAPI.schemas[k]]_vars

\* A call merged a primary and an auxiliary entry into a document that had no
\* components.schemas: both are there under their names.
C12_Witness ==
  \E p \in Callers :
    /\ calls[p].pc = "done"
    /\ calls[p].sets # <<>>
    /\ ~calls[p].pre.oa.schemasPresent
    /\ HasEntry(calls[p].conv.set, calls[p].name)
    /\ Len(calls[p].conv.set.schemas.entries) = 2
    /\ \A i \in 1..2 :
         LET e == calls[p].conv.set.schemas.entries[i]
         IN  /\ Key(e[1]) \in DOMAIN openAPI.schemas
             /\ openAPI.schemas[Key(e[1])] = e[2]

\* A createSchema(name) with no schema, for a name that was not cached.
MissingDocument(c) ==
  /\ c.op = "createSchema"
  /\ c.schema = Undefined
  /\ c.name \notin DOMAIN c.pre.refs

\* C13: createSchema(name) with no schema and name not cached: the resolver
\* fails with the missing-path error, the call rejects with that same error,
\* the converter is never called, and components.schemas and modelReferences
\* are left as they were.
C13_MissingDocument ==
  \A p \in Callers :
    MissingDocument(calls[p]) =>
      /\ calls[p].pc \in {"resolved", "converted", "done"} =>
           /\ ~calls[p].outcome.ok
           /\ calls[p].outcome.err = MissingPathError
           /\ calls[p].outcome.err.message =
                <<"Expected a file path, URL, or object. Got undefined">>
      /\ calls[p].pc \in {"converted", "done"} =>
           /\ calls[p].conv.rejected
           /\ ~calls[p].conv.converterCalled
      /\ calls[p].pc = "done" => calls[p].result = Throw(calls[p].outcome.err)
      /\ \A i \in 1..Len(calls[p].trace) : calls[p].trace[i][1] = "resolve"
      /\ openAPI = calls[p].pre.oa
      /\ modelReferences = calls[p].pre.refs

\* Such a call was made on a document that holds schemas, and rejected.
C13_Witness ==
  \E p \in Callers :
    /\ MissingDocument(calls[p])
    /\ calls[p].pc = "done"
    /\ calls[p].result.kind = "throw"
    /\ DOMAIN openAPI.schemas # {}

\* The indices of the sub-errors whose message contains "HTTP ERROR".
MarkedSubErrors(error) ==
  {i \in 1..Len(error.errors) : Includes(error.errors[i].message, "HTTP ERROR")}

\* The least index of a set of indices that is not empty.
First(indices) == CHOOSE i \in indices : \A j \in indices : i <= j

\* The resolution of the model of a call failed with an aggregate error, and
\* __dereferenceAndConvert has settled.
AggregateFailure(c) ==
  /\ c.pc \in {"converted", "done"}
  /\ ResolutionFailed(c)
  /\ c.outcome.err.hasErrors

\* C14: for a resolution error with a list of sub-errors: when some sub-error
\* contains "HTTP ERROR" the adapter throws the wrapped error made from the
\* first one that does, and the converter is not called; when none does (and
\* the error is not the missing-path error) the converter is called on the
\* schema as given.
C14_AggregateErrors ==
  \A p \in Callers :
    AggregateFailure(calls[p]) =>
      IF MarkedSubErrors(calls[p].outcome.err) # {}
      THEN /\ calls[p].conv.rejected
           /\ ~calls[p].conv.converterCalled
           /\ calls[p].conv.err =
                DereferencingError(
                  calls[p].outcome.err.errors[First(MarkedSubErrors(calls[p].outcome.err))].message,
                  calls[p].model)
      ELSE calls[p].outcome.err.message # MissingPathMessage =>
             /\ calls[p].conv.converterCalled
             /\ calls[p].conv.convertArg = <<calls[p].schema, calls[p].name>>

\* The aggregate error held two sub-errors with the marker, after one without.
C14_Witness ==
  \E p \in Callers :
    /\ AggregateFailure(calls[p])
    /\ Cardinality(MarkedSubErrors(calls[p].outcome.err)) = 2
    /\ First(MarkedSubErrors(calls[p].outcome.err)) = 2

\* __dereferenceAndConvert returned a set for the model of a call.
Converted(c) ==
  /\ c.pc \in {"converted", "done"}
  /\ c.conv.converterCalled
  /\ ~c.conv.rejected

\* What the converter returned for the model of such a call.
ConverterOutput(c) == Convert(c.conv.convertArg[1], c.conv.convertArg[2]).out

\* The keys of the model of a call that start with "x-".
XKeys(c) == {k \in DOMAIN c.model.extra : k = "x-tag"}

\* C15: in the set __dereferenceAndConvert returns, the entry under the
\* model's name carries every "x-" key of the model with the model's value,
\* over the converter's value for that key, and none of the model's other
\* keys; every other entry is as the converter returned it; a set with no
\* entry under the name is as the converter returned it.
C15_ExtensionOverlay ==
  \A p \in Callers :
    Converted(calls[p]) =>
      LET c == calls[p]
          raw == ConverterOutput(c)
      IN  IF HasEntry(raw, c.name)
          THEN /\ c.conv.set.schemas.t = "object"
               /\ Len(c.conv.set.schemas.entries) = Len(raw.schemas.entries)
               /\ \A i \in 1..Len(raw.schemas.entries) :
                    LET e == c.conv.set.schemas.entries[i]
                        r == raw.schemas.entries[i]
                    IN  IF r[1] = c.name
                        THEN /\ e[1] = r[1]
                             /\ e[2].v = r[2].v
                             /\ e[2].ref = r[2].ref
                             /\ DOMAIN e[2].x = DOMAIN r[2].x \cup XKeys(c)
                             /\ \A k \in DOMAIN e[2].x :
                                  e[2].x[k] = IF k \in XKeys(c) THEN c.model.extra[k]
                                              ELSE r[2].x[k]
                        ELSE e = r
          ELSE c.conv.set = raw

\* The model's value of an "x-" key replaced the converter's value of it.
C15_Witness ==
  \E p \in Callers :
    /\ Converted(calls[p])
    /\ HasEntry(ConverterOutput(calls[p]), calls[p].name)
    /\ "x-tag" \in DOMAIN EntryOf(ConverterOutput(calls[p]), calls[p].name).x
    /\ EntryOf(ConverterOutput(calls[p]), calls[p].name).x["x-tag"] = "conv"
    /\ EntryOf(calls[p].conv.set, calls[p].name).x["x-tag"] = "model"

\* The model objects of a configuration: those of documentation.models, then
\* those of documentation.modelsList, then the API-gateway models in the order
\* of their keys; an absent collection has none.
ConfiguredModels(service) ==
  (IF service.documentation.present /\ service.documentation.models.present
   THEN service.documentation.models.items ELSE <<>>)
  \o (IF service.documentation.present /\ service.documentation.modelsList.present
      THEN service.documentation.modelsList.items ELSE <<>>)
  \o (IF service.schemas.present
      THEN [i \in 1..Len(service.schemas.items) |-> service.schemas.items[i][2]]
      ELSE <<>>)

\* C16: __standardiseModels makes this.models of one descriptor per configured
\* model object, in the order documentation.models, documentation.modelsList,
\* API-gateway models, duplicates kept; a model object with a schema is taken
\* as it is; any other gets schema, the schema of the first media type under
\* its content, and contentType, that media type, and keeps its other keys.
C16_NormalizerOrderAndShape ==
  [][LET raw == ConfiguredModels(serverless)
     IN  /\ Len(models') = Len(raw)
         /\ \A i \in 1..Len(raw) :
              LET r == raw[i]
                  m == models'[i]
              IN  IF "schema" \in DOMAIN r
                  THEN /\ m.name = r["name"]
                       /\ m.schema = r["schema"]
                       /\ DOMAIN m.extra = DOMAIN r \ {"name", "schema"}
                       /\ \A k \in DOMAIN m.extra : m.extra[k] = r[k]
                  ELSE /\ m.name = r["name"]
                       /\ m.schema = r["content"][1][2].schema
                       /\ DOMAIN m.extra = (DOMAIN r \ {"name"}) \cup {"contentType"}
                       /\ m.extra["contentType"] = r["content"][1][1]
                       /\ \A k \in DOMAIN r \ {"name"} : m.extra[k] = r[k]]_vars

\* this.models was made of a model object with no schema listed twice in
\* documentation.models and of an API-gateway model, with no modelsList.
C16_Witness ==
  /\ serverless.documentation.present
  /\ serverless.documentation.models = Present(<<RawContent, RawContent>>)
  /\ ~serverless.documentation.modelsList.present
  /\ serverless.schemas = Present(<<<<"k1", RawBoth>>>>)
  /\ Len(models) = 3
  /\ models[1] = models[2]
  /\ models[1].schema = DocB
  /\ models[3].name = "Bar"

\* __dereferenceSchema settled with a document for the model of a call.
Dereferenced(c) ==
  /\ c.pc \in {"resolved", "converted", "done"}
  /\ c.outcome.ok

LastMerged(c) == models[Len(c.sets)]

\* C18: every entry of modelReferences maps a name to
\* "#/components/schemas/" + name, and that name is a key of
\* components.schemas; and once addModelsToOpenAPI has merged a model whose
\* converted set holds an entry under the model's name, components.schemas
\* holds that entry under the name and modelReferences the reference to it.
C18_CacheNeverDangles ==
  /\ \A n \in DOMAIN modelReferences :
       /\ modelReferences[n] = Ref(Key(n))
       /\ ExistsInComponents(openAPI, Key(n))
  /\ \A p \in Callers :
       (/\ calls[p].op = "addModels"
        /\ calls[p].sets # <<>>
        /\ HasEntry(calls[p].sets[Len(calls[p].sets)], LastMerged(calls[p]).name)) =>
         /\ LastMerged(calls[p]).name \in DOMAIN modelReferences
         /\ openAPI.schemas[Key(LastMerged(calls[p]).name)] =
              EntryOf(calls[p].sets[Len(calls[p].sets)], LastMerged(calls[p]).name)

\* addModelsToOpenAPI has merged its first model, and components.schemas holds
\* that one schema only, with its reference cached.
C18_Witness ==
  \E p \in Callers :
    /\ calls[p].op = "addModels"
    /\ Len(calls[p].sets) = 1
    /\ DOMAIN openAPI.schemas = {Key(models[1].name)}
    /\ DOMAIN modelReferences = {models[1].name}
    /\ modelReferences[models[1].name] = Ref(Key(models[1].name))
    /\ openAPI.schemas[Key(models[1].name)] = EntryOf(calls[p].sets[1], models[1].name)

\* A createSchema(name, schema) that returned a reference after merging a
\* converted set with an entry under name.
ReturnedReference(c) ==
  /\ c.op = "createSchema"
  /\ c.pc = "done"
  /\ c.result.kind = "return"
  /\ c.sets # <<>>
  /\ HasEntry(c.conv.set, c.name)

\* C19: when createSchema(name, schema) returns "#/components/schemas/" +
\* finalName and the converted set holds an entry under name,
\* components.schemas[finalName] exists and is deep-equal to that entry,
\* whether the entry was inserted, an equal one reused, or the entry renamed.
C19_ReturnedReferenceResolves ==
  \A p \in Callers :
    ReturnedReference(calls[p]) =>
      /\ calls[p].result.value.ptr = "#/components/schemas/"
      /\ calls[p].result.value.key.base = calls[p].name
      /\ ExistsInComponents(openAPI, calls[p].result.value.key)
      /\ openAPI.schemas[calls[p].result.value.key] =
           EntryOf(calls[p].conv.set, calls[p].name)

\* The reference returned is to an entry that was present and equal.
C19_Witness ==
  \E p \in Callers :
    /\ ReturnedReference(calls[p])
    /\ ExistsInComponents(calls[p].pre.oa, Key(calls[p].name))
    /\ calls[p].pre.oa.schemas[Key(calls[p].name)] =
         EntryOf(calls[p].conv.set, calls[p].name)
    /\ calls[p].result.value = Ref(Key(calls[p].name))

\* The step of caller p is the whole merge of the converted set of its call
\* into the document and the cache as they are, and a step of no other call.
WholeMergeBy(p) ==
  /\ calls[p].pc = "converted"
  /\ ~calls[p].conv.rejected
  /\ calls'[p].pc # "converted"
  /\ \A q \in Callers \ {p} : calls'[q] = calls[q]
  /\ IF calls[p].op = "createSchema"
     THEN /\ openAPI' = CreateSchemaBody(openAPI, uuids, calls[p].name,
                                         calls[p].conv.set).oa
          /\ calls'[p].result = CreateSchemaBody(openAPI, uuids, calls[p].name,
                                                 calls[p].conv.set).result
          /\ modelReferences' = modelReferences
     ELSE /\ openAPI' = AddModelBody(openAPI, modelReferences, calls[p].model,
                                     calls[p].conv.set).oa
          /\ modelReferences' = AddModelBody(openAPI, modelReferences, calls[p].model,
                                             calls[p].conv.set).refs

\* C20: with calls interleaving at their awaits, every change of
\* components.schemas (and of modelReferences) is the whole merge of one
\* call's converted set into the document as the calls merged before left it:
\* the document is at every moment the result of whole merges made one after
\* another, and no merge reads a document another merge has half written.
C20_MergeAtomicity ==
  [][(openAPI' # openAPI \/ modelReferences' # modelReferences) =>
       \E p \in Callers : WholeMergeBy(p)]_vars

\* Two createSchema calls under different names were both made before either
\* was merged, and both have been merged.
C20_Witness ==
  /\ \A p \in Callers :
       /\ calls[p].op = "createSchema"
       /\ calls[p].pc = "done"
       /\ calls[p].sets # <<>>
       /\ Key(calls[p].name) \notin DOMAIN calls[p].pre.oa.schemas
       /\ Key(calls[p].name) \in DOMAIN openAPI.schemas
  /\ calls[1].name # calls[2].name
  /\ calls[1].pre.oa = calls[2].pre.oa

====
